---- MODULE Spec2Model ----
(***************************************************************************)
(* Model of the M365 agent extension: the webview chat (webview/script.js) *)
(* and the extension host (extension.js): request dispatch, the events     *)
(* posted back to the webview, and the extraction of FILE-marked code      *)
(* blocks from a response and their materialization in the workspace.      *)
(*                                                                         *)
(* A text is a sequence of tokens.  "F" is a fence (three backticks), "M"  *)
(* the literal "// FILE: ", "n" a line feed, "s" a space, "/" a path       *)
(* separator, ".." a parent-directory segment; the rest are word           *)
(* characters.                                                             *)
(***************************************************************************)
EXTENDS Integers, Sequences, FiniteSets, TLC

\* Bounds of the model.
MaxRequests == 2
MaxPanels == 2
MaxPieces == 2

Fence == "F"
Marker == "M"
NL == "n"
SP == "s"
Slash == "/"
DotDot == ".."
WordChars == {"a", "b", "d", "j", "x", "y"}
Whitespace == {NL, SP}

Min(S) == CHOOSE x \in S : \A y \in S : x <= y
Max(S) == CHOOSE x \in S : \A y \in S : x >= y

NoMatch == [ok |-> FALSE, first |-> 0, path |-> <<>>, body |-> <<>>, last |-> 0]

\* codeBlockRegex is
\*   ```  [\w]*  \s*\n  // FILE:  (.*?)\n  ([\s\S]*?)  \n```
\* Where its parts end, for a match that starts at position i of t:

\* the position of the marker: the fence at i, word characters, white space
\* that ends in a line feed, and the marker.
MarkerAt(t, i) ==
    {m \in (i + 2)..Len(t) :
        /\ t[i] = Fence
        /\ t[m] = Marker
        /\ t[m - 1] = NL
        /\ \E w \in (i + 1)..(m - 1) :
              /\ \A k \in (i + 1)..(w - 1) : t[k] \in WordChars
              /\ \A k \in w..(m - 1) : t[k] \in Whitespace}

\* the position of the line feed that ends the path: (.*?)\n, and "." takes no
\* line feed.
PathEnd(t, m) ==
    {pn \in (m + 1)..Len(t) :
        t[pn] = NL /\ \A k \in (m + 1)..(pn - 1) : t[k] # NL}

ClosesAt(t, e) == t[e] = NL /\ t[e + 1] = Fence

\* the position of the line feed before the closing fence: the body is lazy,
\* so it is the first line feed from pn + 1 on that a fence follows.
BodyEnd(t, pn) ==
    {e \in (pn + 1)..(Len(t) - 1) :
        ClosesAt(t, e) /\ \A k \in (pn + 1)..(e - 1) : ~ClosesAt(t, k)}

\* The matches of codeBlockRegex anchored at i (none or one): first is
\* match.index, path group 1, body group 2, last the position after the match.
MatchesAt(t, i) ==
    UNION { UNION { { [ok |-> TRUE, first |-> i,
                       path |-> SubSeq(t, m + 1, pn - 1),
                       body |-> SubSeq(t, pn + 1, e - 1),
                       last |-> e + 2] : e \in BodyEnd(t, pn) }
                    : pn \in PathEnd(t, m) }
            : m \in MarkerAt(t, i) }

\* codeBlockRegex.exec(responseText) with lastIndex = from: the leftmost match
\* that starts at or after from, NoMatch for null.
Exec(t, from) ==
    LET found == UNION {MatchesAt(t, i) : i \in from..Len(t)}
    IN  IF found = {} THEN NoMatch
        ELSE CHOOSE r \in found : \A r2 \in found : r.first <= r2.first

\* String.prototype.trim: white space and line terminators off both ends.
Trim(s) ==
    LET keep == {j \in 1..Len(s) : s[j] \notin Whitespace}
    IN  IF keep = {} THEN <<>> ELSE SubSeq(s, Min(keep), Max(keep))

\* One path segment onto a resolved path, as posix normalisation does.
PushSeg(stack, seg) ==
    IF seg = <<>> THEN stack
    ELSE IF seg = <<DotDot>>
         THEN IF stack = <<>> THEN stack ELSE SubSeq(stack, 1, Len(stack) - 1)
         ELSE Append(stack, seg)

RECURSIVE Resolve(_, _, _)
Resolve(p, stack, cur) ==
    IF p = <<>> THEN PushSeg(stack, cur)
    ELSE IF Head(p) = Slash
         THEN Resolve(Tail(p), PushSeg(stack, cur), <<>>)
         ELSE Resolve(Tail(p), stack, Append(cur, Head(p)))

\* vscode.Uri.joinPath(base, p): the segments of base followed by those of p,
\* normalised.  A resolved path is a sequence of segments.
joinPath(base, p) == Resolve(p, base, <<>>)

\* workspaceFolders[0].uri
rootPath == << <<"w">> >>

Inside(abs) == Len(abs) >= Len(rootPath) /\ SubSeq(abs, 1, Len(rootPath)) = rootPath

\* A directory and its ancestors: what a recursive createDirectory leaves.
Ancestors(dir) == {SubSeq(dir, 1, k) : k \in 0..Len(dir)}

(***************************************************************************)
(* Response texts.  A text is put together from pieces: prose, a fenced    *)
(* block with a FILE marker line, or such a block left unterminated.       *)
(***************************************************************************)
PathA == <<"a">>
PathB == <<"b">>
PathSub == <<"d", Slash, "a">>
PathUp == <<DotDot, Slash, "a">>
PathUpSub == <<DotDot, Slash, "d", Slash, "a">>
Paths == {PathA, PathB, PathSub, PathUp, PathUpSub}
Bodies == {<<>>, <<"x">>, <<"y">>, <<SP, "x">>}

BlockPieces == [kind : {"block"}, path : Paths, body : Bodies]
OpenPieces == [kind : {"open"}, path : {PathA}, body : {<<"x">>}]
ProsePieces == [kind : {"prose"}, path : {<<>>}, body : {<<"x">>}]
Pieces == BlockPieces \cup OpenPieces \cup ProsePieces

OpenFence == <<Fence, "j", NL, Marker>>

\* The text of one piece.  A block is the opening fence and marker line, the
\* body's lines, and the closing fence on a line of its own.
RenderPiece(pc) ==
    CASE pc.kind = "block" ->
            OpenFence \o pc.path \o <<NL>>
              \o (IF pc.body = <<>> THEN <<>> ELSE pc.body \o <<NL>>)
              \o <<Fence, NL>>
      [] pc.kind = "open" -> OpenFence \o pc.path \o <<NL>> \o pc.body \o <<NL>>
      [] OTHER -> pc.body \o <<NL>>

RECURSIVE Render(_)
Render(ps) == IF ps = <<>> THEN <<>> ELSE RenderPiece(Head(ps)) \o Render(Tail(ps))

SeqsUpTo(S, n) == UNION {[1..k -> S] : k \in 0..n}

\* The responses a materialization pass is checked on.
AllTexts == SeqsUpTo(Pieces, MaxPieces)

Block(p, b) == [kind |-> "block", path |-> p, body |-> b]

\* The responses of the session model.
SessionTexts ==
    { <<>>, <<Block(PathA, <<"x">>), Block(PathB, <<"y">>)>> }

\* "Nenhuma resposta recebida."
NoResponseText == <<"x">>

\* result.value || "Nenhuma resposta recebida."
copilotResponse(value) == IF value = <<>> THEN NoResponseText ELSE value

(***************************************************************************)
(* State.                                                                  *)
(***************************************************************************)
VARIABLES
    currentPanel,   \* CorporateCopilotPanel.currentPanel: a panel id, 0 for undefined
    panels,         \* per panel: its lifecycle state and the length of _disposables
    ui,             \* per panel: the state of its webview script
    toHost,         \* per panel: messages the webview posted, not yet handled by the host
    toUI,           \* per panel: messages the host posted, not yet handled by the webview
    reqs,           \* the calls of handleCopilotRequest, in the order they started
    files,          \* the files of the file system: records [path, content]
    dirs,           \* the directories of the file system
    sent            \* how many submit messages the webviews have posted

vars == <<currentPanel, panels, ui, toHost, toUI, reqs, files, dirs, sent>>

PanelIds == 1..MaxPanels
Agents == {"architect", "coder", "explorer"}
UserTexts == {<<SP>>, <<"x">>}
Statuses == {401}

NoCur == [path |-> <<>>, content |-> <<>>, abs |-> <<>>]

\* A call of handleCopilotRequest that has reached its first await.
\* sub is the number of the submission the call answers, prompt the selected
\* system prompt, sessions and fetches the calls of getSession and of fetch it
\* has made, errBody the body of a non-ok response.
NewReq(p, agent) ==
    [panel |-> p, agent |-> agent, pc |-> "auth", status |-> 0,
     pieces |-> <<>>, text |-> <<>>, lastIndex |-> 1, cur |-> NoCur,
     filesWritten |-> 0, events |-> <<>>, toasts |-> <<>>,
     err |-> "", crashed |-> FALSE,
     sub |-> 0, prompt |-> "", sessions |-> 1, fetches |-> 0, errBody |-> ""]

Msg(cmd, id, n, err) == [command |-> cmd, req |-> id, count |-> n, err |-> err]

Init ==
    /\ currentPanel = 0
    /\ panels = [p \in PanelIds |-> [state |-> "none", disposables |-> 0]]
    /\ ui = [p \in PanelIds |-> [sendDisabled |-> FALSE, bot |-> 0, messages |-> <<>>]]
    /\ toHost = [p \in PanelIds |-> <<>>]
    /\ toUI = [p \in PanelIds |-> <<>>]
    /\ reqs = <<>>
    /\ files = {}
    /\ dirs = Ancestors(rootPath)
    /\ sent = 0

(***************************************************************************)
(* The panel's lifecycle.                                                  *)
(***************************************************************************)
\* createOrShow without the test of currentPanel.
CreateOrShowAlways ==
    /\ \E p \in PanelIds :
          /\ panels[p].state = "none"
          /\ \A q \in 1..(p - 1) : panels[q].state # "none"
          /\ currentPanel' = p
          /\ panels' = [panels EXCEPT ![p] = [state |-> "live", disposables |-> 2]]
    /\ UNCHANGED <<ui, toHost, toUI, reqs, files, dirs, sent>>

\* The command m365-corporate-agent.start.
CreateOrShow ==
    \/ /\ currentPanel # 0
       /\ UNCHANGED vars
    \/ /\ currentPanel = 0
       /\ \E p \in PanelIds :
             /\ panels[p].state = "none"
             /\ \A q \in 1..(p - 1) : panels[q].state # "none"
             /\ currentPanel' = p
             /\ panels' = [panels EXCEPT ![p] = [state |-> "live", disposables |-> 2]]
       /\ UNCHANGED <<ui, toHost, toUI, reqs, files, dirs, sent>>

\* dispose() without its first statement: currentPanel keeps naming the panel.
DisposeKeepsHandle(p) ==
    /\ panels[p].state = "live"
    /\ panels' = [panels EXCEPT ![p] = [state |-> "disposed", disposables |-> 0]]
    /\ toHost' = [toHost EXCEPT ![p] = <<>>]
    /\ toUI' = [toUI EXCEPT ![p] = <<>>]
    /\ UNCHANGED <<currentPanel, ui, reqs, files, dirs, sent>>

\* The user closes the panel: onDidDispose runs dispose().  The webview is gone,
\* and with it the messages it had not yet handled or not yet delivered.
Dispose(p) ==
    /\ panels[p].state = "live"
    /\ currentPanel' = 0
    /\ panels' = [panels EXCEPT ![p] = [state |-> "disposed", disposables |-> 0]]
    /\ toHost' = [toHost EXCEPT ![p] = <<>>]
    /\ toUI' = [toUI EXCEPT ![p] = <<>>]
    /\ UNCHANGED <<ui, reqs, files, dirs, sent>>

(***************************************************************************)
(* The webview script.                                                     *)
(***************************************************************************)
\* A message element; owner is the submission a bot element was created for,
\* reqs the requests whose response text was added to it.
Element(type) == [type |-> type, reqs |-> <<>>, formatted |-> FALSE, owner |-> 0]

sendMessage(p, text, agent) ==
    IF Trim(text) = <<>>
    THEN UNCHANGED vars
    ELSE /\ sent < MaxRequests
         /\ ui' = [ui EXCEPT ![p] =
                      [sendDisabled |-> TRUE,
                       messages |-> @.messages \o
                           <<Element("user"),
                             [Element("bot") EXCEPT !.owner = sent + 1]>>,
                       bot |-> Len(@.messages) + 2]]
         /\ toHost' = [toHost EXCEPT ![p] =
                          Append(@, [command |-> "sendMessageToCopilot", agent |-> agent,
                                     sub |-> sent + 1])]
         /\ sent' = sent + 1
         /\ UNCHANGED <<currentPanel, panels, toUI, reqs, files, dirs>>

\* A click on the send button; a disabled button takes no click.
UIClick(p) ==
    /\ panels[p].state = "live"
    /\ ~ui[p].sendDisabled
    /\ \E text \in UserTexts, agent \in Agents : sendMessage(p, text, agent)

\* Enter (without Shift) in the prompt input.
UIEnter(p) ==
    /\ panels[p].state = "live"
    /\ \E text \in UserTexts, agent \in Agents : sendMessage(p, text, agent)

LastBot(ms) ==
    LET bots == {k \in 1..Len(ms) : ms[k].type = "bot"}
    IN  IF bots = {} THEN 0 ELSE Max(bots)

\* formatLastBotMessage
formatLastBotMessage(ms) ==
    IF LastBot(ms) = 0 THEN ms ELSE [ms EXCEPT ![LastBot(ms)].formatted = TRUE]

\* The message listener with the button re-enabled when the response arrives.
OnMessageResponseEnables(u, m) ==
    CASE m.command = "streamResponse" ->
            IF u.bot # 0
            THEN [u EXCEPT !.messages[u.bot].reqs = Append(@, m.req),
                           !.sendDisabled = FALSE]
            ELSE [u EXCEPT !.sendDisabled = FALSE]
      [] m.command = "endStream" ->
            [u EXCEPT !.sendDisabled = FALSE, !.bot = 0,
                      !.messages = formatLastBotMessage(@)]
      [] m.command = "showError" ->
            [u EXCEPT !.messages = Append(@, Element("system")),
                      !.sendDisabled = FALSE]
      [] m.command = "addSystemMessage" ->
            [u EXCEPT !.messages = Append(@, Element("system"))]
      [] OTHER -> u

\* The webview's message listener.
OnMessage(u, m) ==
    CASE m.command = "streamResponse" ->
            IF u.bot # 0
            THEN [u EXCEPT !.messages[u.bot].reqs = Append(@, m.req)]
            ELSE u
      [] m.command = "endStream" ->
            [u EXCEPT !.sendDisabled = FALSE, !.bot = 0,
                      !.messages = formatLastBotMessage(@)]
      [] m.command = "showError" ->
            [u EXCEPT !.messages = Append(@, Element("system")),
                      !.sendDisabled = FALSE]
      [] m.command = "addSystemMessage" ->
            [u EXCEPT !.messages = Append(@, Element("system"))]
      [] OTHER -> u

UIReceive(p) ==
    /\ panels[p].state = "live"
    /\ toUI[p] # <<>>
    /\ ui' = [ui EXCEPT ![p] = OnMessage(@, Head(toUI[p]))]
    /\ toUI' = [toUI EXCEPT ![p] = Tail(@)]
    /\ UNCHANGED <<currentPanel, panels, toHost, reqs, files, dirs, sent>>

(***************************************************************************)
(* The extension host.  A handler runs from one await to the next in one   *)
(* step; h = [r, q, exc] is the request, the queue of its panel's webview  *)
(* and the pending exception ("" for none) while such a step runs, and d   *)
(* tells whether the request's panel is disposed.                          *)
(***************************************************************************)
\* postMessage that does nothing on a disposed panel instead of throwing.
PostMessageQuiet(h, d, m) ==
    IF d
    THEN h
    ELSE [h EXCEPT !.q = Append(@, m), !.r.events = Append(@, m.command)]

\* this._panel.webview.postMessage(m): a disposed panel has no webview to give.
PostMessage(h, d, m) ==
    IF d
    THEN [h EXCEPT !.exc = "Webview is disposed"]
    ELSE [h EXCEPT !.q = Append(@, m), !.r.events = Append(@, m.command)]

\* vscode.window.show{Information,Warning,Error}Message
Toast(h, kind, path, content) ==
    [h EXCEPT !.r.toasts = Append(@, [kind |-> kind, path |-> path, content |-> content])]

\* endStream posted at the end of the try block instead of in a finally block.
FinallyInTry(id, h, d) ==
    LET h1 == IF h.r.err = "" THEN PostMessage(h, d, Msg("endStream", id, 0, "")) ELSE h
    IN  [h1 EXCEPT !.r.pc = "done", !.r.crashed = (h1.exc # "")]

\* The finally block of handleCopilotRequest.
Finally(id, h, d) ==
    LET h1 == PostMessage(h, d, Msg("endStream", id, 0, ""))
    IN  [h1 EXCEPT !.r.pc = "done", !.r.crashed = (h1.exc # "")]

\* The catch block of handleCopilotRequest, then its finally block.
Catch(id, h, d, err) ==
    LET h1 == Toast([h EXCEPT !.exc = "", !.r.err = err], "error", <<>>, <<>>)
        h2 == PostMessage(h1, d, Msg("showError", id, 0, err))
    IN  Finally(id, h2, d)

\* The loop with processAndWriteFiles not awaited: the finally block of the
\* caller runs before the notice is posted.
LoopDetached(id, h, d, m) ==
    IF m.ok
        THEN [h EXCEPT !.r.lastIndex = m.last,
                       !.r.cur = [path |-> Trim(m.path),
                                  content |-> Trim(m.body),
                                  abs |-> joinPath(rootPath, Trim(m.path))],
                       !.r.pc = "mkdir"]
        ELSE LET h1 == Finally(id, h, d)
             IN  IF h.r.filesWritten > 0
                 THEN PostMessage(h1, d, Msg("addSystemMessage", id, h.r.filesWritten, ""))
                 ELSE h1

\* The while loop of processAndWriteFiles from its condition to the next await
\* (the createDirectory of the next match), or to the end of the request; m is
\* what codeBlockRegex.exec gave in the condition.
Loop(id, h, d, m) ==
    IF m.ok
        THEN [h EXCEPT !.r.lastIndex = m.last,
                       !.r.cur = [path |-> Trim(m.path),
                                  content |-> Trim(m.body),
                                  abs |-> joinPath(rootPath, Trim(m.path))],
                       !.r.pc = "mkdir"]
        ELSE LET h1 == IF h.r.filesWritten > 0
                       THEN PostMessage(h, d,
                                Msg("addSystemMessage", id, h.r.filesWritten, ""))
                       ELSE h
             IN  IF h1.exc # "" THEN Catch(id, h1, d, h1.exc) ELSE Finally(id, h1, d)

\* The loop body without its try/catch: the failure reaches the catch block of
\* handleCopilotRequest and the pass ends.
FileFailedAborts(id, h, d, m) == Catch(id, h, d, "EIO")

\* The loop body with filesWritten++ ahead of the file operations: a failed
\* intent is counted too.
FileFailedCounted(id, h, d, m) ==
    Loop(id, Toast([h EXCEPT !.r.filesWritten = @ + 1],
                   "failed", h.r.cur.path, h.r.cur.content), d, m)

\* The catch block of the loop body: the failure is shown and the loop goes on.
FileFailed(id, h, d, m) ==
    Loop(id, Toast(h, "failed", h.r.cur.path, h.r.cur.content), d, m)

\* The end of the loop body's try block: the file is counted and shown.
FileSaved(id, h, d, m) ==
    Loop(id, Toast([h EXCEPT !.r.filesWritten = @ + 1],
                   "saved", h.r.cur.path, h.r.cur.content), d, m)

processAndWriteFiles(id, h, d, hasWorkspace, m) ==
    IF ~hasWorkspace
    THEN Finally(id, Toast(h, "warning", <<>>, <<>>), d)
    ELSE Loop(id, h, d, m)

\* The response materialized whatever the agent.
RespondAnyAgent(id, h, d, hasWorkspace, m) ==
    LET h1 == PostMessage(h, d, Msg("streamResponse", id, 0, ""))
    IN  IF h1.exc # "" THEN Catch(id, h1, d, h1.exc)
        ELSE processAndWriteFiles(id, h1, d, hasWorkspace, m)

\* handleCopilotRequest from the parsed result on.
Respond(id, h, d, hasWorkspace, m) ==
    LET h1 == PostMessage(h, d, Msg("streamResponse", id, 0, ""))
    IN  IF h1.exc # "" THEN Catch(id, h1, d, h1.exc)
        ELSE IF h1.r.agent = "coder"
             THEN processAndWriteFiles(id, h1, d, hasWorkspace, m)
             ELSE Finally(id, h1, d)

\* The panel of CorporateCopilotPanel.currentPanel, when there is one, in the
\* place of the handler's own.
currentPanelOf(id) == IF currentPanel # 0 THEN currentPanel ELSE reqs[id].panel

\* this._panel in a handler: the panel of the instance whose listener got the
\* submit message.
thisPanel(id) == reqs[id].panel

Start(id) == [r |-> reqs[id], q |-> toUI[thisPanel(id)], exc |-> ""]
IsDisposed(id) == panels[thisPanel(id)].state = "disposed"

Apply(id, h) ==
    /\ reqs' = [reqs EXCEPT ![id] = h.r]
    /\ toUI' = [toUI EXCEPT ![thisPanel(id)] = h.q]

\* onDidReceiveMessage: the host takes a message of the webview and calls
\* handleCopilotRequest, which runs to its first await (getSession).
HostReceive(p) ==
    /\ panels[p].state = "live"
    /\ toHost[p] # <<>>
    /\ toHost' = [toHost EXCEPT ![p] = Tail(@)]
    /\ reqs' = IF Head(toHost[p]).command = "sendMessageToCopilot"
               THEN Append(reqs, [NewReq(p, Head(toHost[p]).agent)
                                     EXCEPT !.sub = Head(toHost[p]).sub])
               ELSE reqs
    /\ UNCHANGED <<currentPanel, panels, ui, toUI, files, dirs, sent>>

ARCHITECT_PROMPT == "ARCHITECT_PROMPT"
CODER_PROMPT == "CODER_PROMPT"

\* A lookup in a table of prompts by agent, with no entry for other agents.
systemPromptLookup(agent) ==
    CASE agent = "architect" -> ARCHITECT_PROMPT
      [] agent = "coder" -> CODER_PROMPT
      [] OTHER -> "undefined"

\* agent === 'architect' ? ARCHITECT_PROMPT : CODER_PROMPT
systemPrompt(agent) == IF agent = "architect" THEN ARCHITECT_PROMPT ELSE CODER_PROMPT

\* getSession settles: getAccessToken returns the token, or shows an error and
\* throws 'Authentication failed'.  With the token the handler calls fetch.
AuthReturn(id) ==
    /\ reqs[id].pc = "auth"
    /\ \/ Apply(id, [Start(id) EXCEPT !.r.pc = "fetch",
                                       !.r.prompt = systemPrompt(reqs[id].agent),
                                       !.r.fetches = @ + 1])
       \/ Apply(id, Catch(id, Toast(Start(id), "error", <<>>, <<>>), IsDisposed(id),
                          "Authentication failed"))
    /\ UNCHANGED <<currentPanel, panels, ui, toHost, files, dirs, sent>>

\* fetch settles, and the handler reads the body without looking at response.ok.
FetchReturnUnchecked(id) ==
    /\ reqs[id].pc = "fetch"
    /\ \/ Apply(id, Catch(id, Start(id), IsDisposed(id), "fetch failed"))
       \/ Apply(id, [Start(id) EXCEPT !.r.pc = "json"])
       \/ \E st \in Statuses :
             Apply(id, [Start(id) EXCEPT !.r.pc = "json", !.r.status = st])
    /\ UNCHANGED <<currentPanel, panels, ui, toHost, files, dirs, sent>>

\* fetch settles: it throws, or gives a response whose body is then read.
FetchReturn(id) ==
    /\ reqs[id].pc = "fetch"
    /\ \/ Apply(id, Catch(id, Start(id), IsDisposed(id), "fetch failed"))
       \/ Apply(id, [Start(id) EXCEPT !.r.pc = "json"])
       \/ \E st \in Statuses :
             Apply(id, [Start(id) EXCEPT !.r.pc = "errjson", !.r.status = st])
    /\ UNCHANGED <<currentPanel, panels, ui, toHost, files, dirs, sent>>

\* The body of a non-ok response: JSON with error.message, JSON without it,
\* or no JSON at all.
ErrorBodies == {"message", "nomessage", "unparsable"}

\* The message of the error thrown for a non-ok response with the given body:
\* response.json() throws on a body that is no JSON; otherwise the handler
\* throws `API Error ${response.status}: ` and error.message or 'Erro
\* desconhecido' (the status is the request's status field).
errorOf(body) ==
    CASE body = "unparsable" -> "SyntaxError"
      [] body = "message" -> "API Error: server message"
      [] OTHER -> "API Error: Erro desconhecido"

\* A non-ok response answered by calling fetch once more.
ErrJsonReturnRetry(id) ==
    /\ reqs[id].pc = "errjson"
    /\ \/ /\ reqs[id].fetches < 2
          /\ Apply(id, [Start(id) EXCEPT !.r.pc = "fetch", !.r.status = 0,
                                          !.r.fetches = @ + 1])
       \/ \E body \in ErrorBodies :
             Apply(id, Catch(id, [Start(id) EXCEPT !.r.errBody = body],
                             IsDisposed(id), errorOf(body)))
    /\ UNCHANGED <<currentPanel, panels, ui, toHost, files, dirs, sent>>

\* response.json() of a non-ok response settles; every way on throws.
ErrJsonReturn(id) ==
    /\ reqs[id].pc = "errjson"
    /\ \E body \in ErrorBodies :
          Apply(id, Catch(id, [Start(id) EXCEPT !.r.errBody = body],
                          IsDisposed(id), errorOf(body)))
    /\ UNCHANGED <<currentPanel, panels, ui, toHost, files, dirs, sent>>

\* response.json() of an ok response settles: it throws, or gives the result,
\* whose value the handler posts and, for the coder, materializes.
JsonReturn(id, texts) ==
    /\ reqs[id].pc = "json"
    /\ \/ Apply(id, Catch(id, Start(id), IsDisposed(id), "SyntaxError"))
       \/ \E ps \in texts, hasWorkspace \in BOOLEAN :
             \E t \in {copilotResponse(Render(ps))} :
                \E m \in {Exec(t, 1)} :
                   Apply(id, Respond(id,
                              [Start(id) EXCEPT !.r.pieces = ps, !.r.text = t],
                              IsDisposed(id), hasWorkspace, m))
    /\ UNCHANGED <<currentPanel, panels, ui, toHost, files, dirs, sent>>

\* codeBlockRegex.exec(responseText) in the loop's condition.
NextMatch(id) == Exec(reqs[id].text, reqs[id].lastIndex)

Parent(abs) == joinPath(abs, <<DotDot>>)

\* createDirectory settles: the directory and its ancestors exist and the
\* handler calls writeFile, or it throws and the loop goes on.
MkdirReturn(id) ==
    /\ reqs[id].pc = "mkdir"
    /\ \/ /\ dirs' = dirs \cup Ancestors(Parent(reqs[id].cur.abs))
          /\ Apply(id, [Start(id) EXCEPT !.r.pc = "write"])
       \/ /\ dirs' = dirs
          /\ \E m \in {NextMatch(id)} :
                Apply(id, FileFailed(id, Start(id), IsDisposed(id), m))
    /\ UNCHANGED <<currentPanel, panels, ui, toHost, files, sent>>

\* writeFile that appends to an existing file.
WriteFileAppend(fs, abs, content) ==
    {f \in fs : f.path # abs}
       \cup {[path |-> abs, content |-> f.content \o content] : f \in {g \in fs : g.path = abs}}
       \cup (IF \E f \in fs : f.path = abs THEN {}
             ELSE {[path |-> abs, content |-> content]})

\* writeFile that leaves an existing file as it is.
WriteFileKeep(fs, abs, content) ==
    IF \E f \in fs : f.path = abs THEN fs
    ELSE fs \cup {[path |-> abs, content |-> content]}

\* vscode.workspace.fs.writeFile: the file is created or overwritten.
WriteFile(fs, abs, content) ==
    {f \in fs : f.path # abs} \cup {[path |-> abs, content |-> content]}

\* writeFile settles: the file holds the content and the count goes up, or it
\* throws; either way the loop goes on.
WriteReturn(id) ==
    /\ reqs[id].pc = "write"
    /\ \/ /\ files' = WriteFile(files, reqs[id].cur.abs, reqs[id].cur.content)
          /\ \E m \in {NextMatch(id)} :
                Apply(id, FileSaved(id, Start(id), IsDisposed(id), m))
       \/ /\ files' = files
          /\ \E m \in {NextMatch(id)} :
                Apply(id, FileFailed(id, Start(id), IsDisposed(id), m))
    /\ UNCHANGED <<currentPanel, panels, ui, toHost, dirs, sent>>

(***************************************************************************)
(* Specifications.                                                         *)
(***************************************************************************)
Next ==
    \/ CreateOrShow
    \/ \E p \in PanelIds : Dispose(p)
    \/ \E p \in PanelIds : UIClick(p)
    \/ \E p \in PanelIds : UIEnter(p)
    \/ \E p \in PanelIds : UIReceive(p)
    \/ \E p \in PanelIds : HostReceive(p)
    \/ \E id \in 1..Len(reqs) : AuthReturn(id)
    \/ \E id \in 1..Len(reqs) : FetchReturn(id)
    \/ \E id \in 1..Len(reqs) : ErrJsonReturn(id)
    \/ \E id \in 1..Len(reqs) : JsonReturn(id, SessionTexts)
    \/ \E id \in 1..Len(reqs) : MkdirReturn(id)
    \/ \E id \in 1..Len(reqs) : WriteReturn(id)

Spec == Init /\ [][Next]_vars

\* A materialization pass on its own: one coder request of a live panel whose
\* response is about to arrive, over every text of AllTexts.
InitPass ==
    /\ currentPanel = 1
    /\ panels = [p \in PanelIds |->
                    IF p = 1 THEN [state |-> "live", disposables |-> 2]
                    ELSE [state |-> "none", disposables |-> 0]]
    /\ ui = [p \in PanelIds |->
                IF p = 1
                THEN [sendDisabled |-> TRUE, bot |-> 2,
                      messages |-> <<Element("user"),
                                     [Element("bot") EXCEPT !.owner = 1]>>]
                ELSE [sendDisabled |-> FALSE, bot |-> 0, messages |-> <<>>]]
    /\ toHost = [p \in PanelIds |-> <<>>]
    /\ toUI = [p \in PanelIds |-> <<>>]
    /\ reqs = <<[NewReq(1, "coder") EXCEPT !.pc = "json", !.sub = 1, !.fetches = 1,
                                           !.prompt = systemPrompt("coder")]>>
    /\ files = {}
    /\ dirs = Ancestors(rootPath)
    /\ sent = 1

NextPass ==
    \/ \E id \in 1..Len(reqs) : JsonReturn(id, AllTexts)
    \/ \E id \in 1..Len(reqs) : MkdirReturn(id)
    \/ \E id \in 1..Len(reqs) : WriteReturn(id)

PassSpec == InitPass /\ [][NextPass]_vars

\* The same response materialized twice: two coder requests of one panel (the
\* second submitted with Enter while the first was pending), the first about
\* to get its response, the second waiting for fetch; whichever gets its
\* response second gets the text the other got.
TwicePieces == [kind : {"block"}, path : {PathA, PathSub}, body : {<<"x">>, <<"y">>}]
TwiceTexts == SeqsUpTo(TwicePieces, MaxPieces)

InitTwice ==
    /\ currentPanel = 1
    /\ panels = [p \in PanelIds |->
                    IF p = 1 THEN [state |-> "live", disposables |-> 2]
                    ELSE [state |-> "none", disposables |-> 0]]
    /\ ui = [p \in PanelIds |->
                IF p = 1
                THEN [sendDisabled |-> TRUE, bot |-> 4,
                      messages |-> <<Element("user"),
                                     [Element("bot") EXCEPT !.owner = 1],
                                     Element("user"),
                                     [Element("bot") EXCEPT !.owner = 2]>>]
                ELSE [sendDisabled |-> FALSE, bot |-> 0, messages |-> <<>>]]
    /\ toHost = [p \in PanelIds |-> <<>>]
    /\ toUI = [p \in PanelIds |-> <<>>]
    /\ reqs = <<[NewReq(1, "coder") EXCEPT !.pc = "json", !.sub = 1, !.fetches = 1,
                                           !.prompt = systemPrompt("coder")],
                [NewReq(1, "coder") EXCEPT !.pc = "fetch", !.sub = 2, !.fetches = 1,
                                           !.prompt = systemPrompt("coder")]>>
    /\ files = {}
    /\ dirs = Ancestors(rootPath)
    /\ sent = 2

SameTexts ==
    LET got == {j \in 1..Len(reqs) : reqs[j].text # <<>>}
    IN  IF got = {} THEN TwiceTexts ELSE {reqs[j].pieces : j \in got}

NextTwice ==
    \/ \E id \in 1..Len(reqs) : FetchReturn(id)
    \/ \E id \in 1..Len(reqs) : ErrJsonReturn(id)
    \/ \E id \in 1..Len(reqs) : JsonReturn(id, SameTexts)
    \/ \E id \in 1..Len(reqs) : MkdirReturn(id)
    \/ \E id \in 1..Len(reqs) : WriteReturn(id)

TwiceSpec == InitTwice /\ [][NextTwice]_vars

\* The session under the assumption that every awaited operation settles:
\* getSession, fetch, the reading of a body, createDirectory and writeFile.
HandlerStep(id) ==
    /\ id \in 1..Len(reqs)
    /\ \/ AuthReturn(id)
       \/ FetchReturn(id)
       \/ ErrJsonReturn(id)
       \/ JsonReturn(id, SessionTexts)
       \/ MkdirReturn(id)
       \/ WriteReturn(id)

FairSpec == Spec /\ \A id \in 1..MaxRequests : WF_vars(HandlerStep(id))

(***************************************************************************)
(* What the claims speak of.                                               *)
(***************************************************************************)
ReqIds == 1..Len(reqs)
Done(id) == reqs[id].pc = "done"
Count(sq, x) == Cardinality({k \in 1..Len(sq) : sq[k] = x})

\* The handler had the response text in hand.
Responded(id) == reqs[id].text # <<>>

\* The request failed in its remote phase: no credential, the call threw, or
\* the status was not a success.
RemoteFailed(id) ==
    \/ reqs[id].err \in {"Authentication failed", "fetch failed"}
    \/ reqs[id].status # 0

\* No file operation was started for the request.
NoFileAttempt(id) ==
    /\ reqs[id].lastIndex = 1
    /\ reqs[id].cur = NoCur
    /\ \A k \in 1..Len(reqs[id].toasts) : reqs[id].toasts[k].kind \notin {"saved", "failed"}

\* response, notices, finished.
IsNotices(sq) == \A k \in 1..Len(sq) : sq[k] = "addSystemMessage"
Complete(ev) ==
    /\ Len(ev) >= 2
    /\ ev[1] = "streamResponse"
    /\ ev[Len(ev)] = "endStream"
    /\ IsNotices(SubSeq(ev, 2, Len(ev) - 1))
Partial(ev) ==
    \/ ev = <<>>
    \/ ev[1] = "streamResponse" /\ IsNotices(SubSeq(ev, 2, Len(ev)))
    \/ Complete(ev)

(***************************************************************************)
(* C1.  Every request ends, and ends with exactly one endStream event.     *)
(***************************************************************************)
\* C1 as claimed: a request that has ended has posted exactly one endStream.
C1_OneFinishedPerRequest ==
    \A id \in ReqIds : Done(id) => Count(reqs[id].events, "endStream") = 1

\* C1 as amended: every request ends (its awaited operations settling); it
\* posts no endStream before it ends, and at its end exactly one if its panel
\* is still live, and none if the panel was disposed before (the handler then
\* ends with the exception of the disposed webview).
C1_FinishedUnlessDisposed ==
    /\ [](\A id \in ReqIds :
            /\ ~Done(id) => Count(reqs[id].events, "endStream") = 0
            /\ Done(id) =>
                  Count(reqs[id].events, "endStream")
                     = (IF reqs[id].crashed THEN 0 ELSE 1)
            /\ reqs[id].crashed => panels[reqs[id].panel].state = "disposed")
    /\ \A id \in 1..MaxRequests :
          (id \in ReqIds) ~> (id \in ReqIds /\ Done(id))

\* Two requests of a live panel have ended, one after an error and one after
\* files were written, each with its endStream.
C1_Witness ==
    \E i, j \in ReqIds :
        /\ Done(i) /\ Done(j)
        /\ reqs[i].err # "" /\ reqs[j].filesWritten > 0
        /\ ~reqs[i].crashed /\ ~reqs[j].crashed
        /\ Count(reqs[i].events, "endStream") = 1
        /\ Count(reqs[j].events, "endStream") = 1

(***************************************************************************)
(* C2.  At most one remote call outstanding per panel.                     *)
(***************************************************************************)
InFlight(p) == {id \in ReqIds : reqs[id].panel = p /\ reqs[id].pc = "fetch"}

\* C2: in every state at most one remote call is outstanding for a panel; a
\* second submission while one is pending starts no overlapping call.
C2_AtMostOneInFlight ==
    \A p \in PanelIds : Cardinality(InFlight(p)) <= 1

(***************************************************************************)
(* C3.  No write outside the workspace root.                               *)
(***************************************************************************)
\* C3: no file is written and no directory created outside the workspace
\* root, and an intent whose path resolves outside it is reported as failed.
C3_EscapeRefused ==
    /\ \A f \in files : Inside(f.path)
    /\ \A dir \in dirs : Inside(dir) \/ dir \in Ancestors(rootPath)
    /\ \A id \in ReqIds : \A k \in 1..Len(reqs[id].toasts) :
          reqs[id].toasts[k].kind = "saved"
             => Inside(joinPath(rootPath, reqs[id].toasts[k].path))

(***************************************************************************)
(* C4.  The order of the events of a request whose remote call succeeded.  *)
(***************************************************************************)
\* C4 as claimed: a request that got its response and has ended has posted
\* one streamResponse, then addSystemMessage events, then one endStream.
C4_StrictOrder ==
    \A id \in ReqIds : (Done(id) /\ Responded(id)) => Complete(reqs[id].events)

\* C4 as amended: the events of a request that got its response are at any
\* time a prefix of streamResponse, addSystemMessage*, endStream; the sequence
\* is complete exactly when the handler has ended without the exception of a
\* disposed webview, which only a panel disposed during the request raises.
C4_OrderedUntilDisposed ==
    \A id \in ReqIds :
        Responded(id) =>
            /\ Partial(reqs[id].events)
            /\ Complete(reqs[id].events) <=> (Done(id) /\ ~reqs[id].crashed)
            /\ reqs[id].crashed => panels[reqs[id].panel].state = "disposed"

\* A request has ended with a response, a notice of written files and its
\* endStream.
C4_Witness ==
    \E id \in ReqIds :
        /\ Done(id) /\ Responded(id) /\ ~reqs[id].crashed
        /\ reqs[id].events = <<"streamResponse", "addSystemMessage", "endStream">>

(***************************************************************************)
(* C5.  A request that fails in its remote phase.                          *)
(***************************************************************************)
\* C5 as claimed: a request that failed in its remote phase and has ended
\* has posted one showError and then endStream, no streamResponse, and has
\* attempted no file operation.
C5_ErrorThenFinished ==
    \A id \in ReqIds :
        (Done(id) /\ RemoteFailed(id)) =>
            /\ reqs[id].events = <<"showError", "endStream">>
            /\ NoFileAttempt(id)

\* C5 as amended: a request that failed in its remote phase never posts a
\* streamResponse and attempts no file operation; when it has ended it has
\* posted showError and then endStream, unless its panel was disposed during
\* the request, and then it has posted nothing.
C5_ErrorThenFinishedUnlessDisposed ==
    \A id \in ReqIds :
        RemoteFailed(id) =>
            /\ NoFileAttempt(id)
            /\ Count(reqs[id].events, "streamResponse") = 0
            /\ Done(id) =>
                  reqs[id].events
                     = (IF reqs[id].crashed THEN <<>> ELSE <<"showError", "endStream">>)
            /\ reqs[id].crashed => panels[reqs[id].panel].state = "disposed"

\* A request answered with status 401 has ended with showError and endStream.
C5_Witness ==
    \E id \in ReqIds :
        /\ Done(id) /\ reqs[id].status = 401
        /\ reqs[id].events = <<"showError", "endStream">>
        /\ reqs[id].filesWritten = 0

(***************************************************************************)
(* Extraction, as a materialization pass shows it: every intent the loop   *)
(* extracts is shown as saved or as failed, with its path and content.     *)
(***************************************************************************)
IsFileToast(t) == t.kind \in {"saved", "failed"}
FileToasts(id) == SelectSeq(reqs[id].toasts, IsFileToast)
Intents(id) ==
    [k \in 1..Len(FileToasts(id)) |->
        [path |-> FileToasts(id)[k].path, content |-> FileToasts(id)[k].content]]

\* The pass of the request ran over the whole response.
PassRan(id) ==
    /\ Done(id) /\ Responded(id) /\ ~reqs[id].crashed
    /\ reqs[id].agent = "coder"
    /\ \A k \in 1..Len(reqs[id].toasts) : reqs[id].toasts[k].kind # "warning"

\* The intents the blocks of a response stand for: one per block, in order.
IsBlock(pc) == pc.kind = "block"
Blocks(ps) == SelectSeq(ps, IsBlock)
Expected(ps) ==
    [k \in 1..Len(Blocks(ps)) |->
        [path |-> Blocks(ps)[k].path, content |-> Blocks(ps)[k].body]]

Kinds(ps) == {ps[k].kind : k \in 1..Len(ps)}
BlockBodies(ps) == {Blocks(ps)[k].body : k \in 1..Len(Blocks(ps))}
PlainBodies == {<<"x">>, <<"y">>}

\* C6: a response of prose and well-formed FILE blocks yields one intent per
\* block, in document order, with the block's path and the block's body.
C6_RoundTrip ==
    \A id \in ReqIds :
        (PassRan(id) /\ "open" \notin Kinds(reqs[id].pieces))
            => Intents(id) = Expected(reqs[id].pieces)

\* C7: an unterminated FILE fence yields no intent, and every well-formed
\* block of the response (here with a body of one plain line) still yields
\* its own intent.
C7_MalformedSkipped ==
    \A id \in ReqIds :
        (/\ PassRan(id)
         /\ "open" \in Kinds(reqs[id].pieces)
         /\ BlockBodies(reqs[id].pieces) \subseteq PlainBodies)
            => Intents(id) = Expected(reqs[id].pieces)

\* C8: a FILE block with an empty body yields an intent with empty content,
\* and the blocks after it (here with a body of one plain line) theirs.
C8_EmptyBody ==
    \A id \in ReqIds :
        (/\ PassRan(id)
         /\ "open" \notin Kinds(reqs[id].pieces)
         /\ <<>> \in BlockBodies(reqs[id].pieces)
         /\ BlockBodies(reqs[id].pieces) \subseteq PlainBodies \cup {<<>>})
            => Intents(id) = Expected(reqs[id].pieces)

(***************************************************************************)
(* C9.  A failed intent does not stop the pass.                            *)
(***************************************************************************)
\* Every match of codeBlockRegex in a text from position from on, in order.
RECURSIVE ExtractAll(_, _)
ExtractAll(t, from) ==
    LET m == Exec(t, from)
    IN  IF ~m.ok THEN <<>>
        ELSE <<[path |-> Trim(m.path), content |-> Trim(m.body)]>>
                \o ExtractAll(t, m.last)

\* The file that the last saved intent among the first n left at abs.
LastSaved(id, abs, n) ==
    LET ks == {k \in 1..n :
                  /\ FileToasts(id)[k].kind = "saved"
                  /\ joinPath(rootPath, FileToasts(id)[k].path) = abs}
    IN  IF ks = {} THEN {}
        ELSE {[path |-> abs, content |-> FileToasts(id)[Max(ks)].content]}

AbsPaths(id) ==
    {joinPath(rootPath, FileToasts(id)[k].path) : k \in 1..Len(FileToasts(id))}

\* C9: when a pass has ended, every intent of the response was attempted, in
\* document order, whatever failed before it, and every intent that succeeded
\* was written.
C9_FailureDoesNotStopPass ==
    \A id \in ReqIds :
        PassRan(id) =>
            /\ Intents(id) = ExtractAll(reqs[id].text, 1)
            /\ \A k \in 1..Len(FileToasts(id)) :
                  FileToasts(id)[k].kind = "saved"
                     => \E f \in files :
                           f.path = joinPath(rootPath, FileToasts(id)[k].path)

\* A pass has ended in which the first intent failed and the second, for
\* another path, was written.
C9_Witness ==
    \E id \in ReqIds :
        /\ PassRan(id)
        /\ Len(FileToasts(id)) = 2
        /\ FileToasts(id)[1].kind = "failed"
        /\ FileToasts(id)[2].kind = "saved"
        /\ FileToasts(id)[1].path # FileToasts(id)[2].path
        /\ [path |-> joinPath(rootPath, FileToasts(id)[2].path),
            content |-> FileToasts(id)[2].content] \in files

(***************************************************************************)
(* C10.  Two intents for one path.                                         *)
(***************************************************************************)
\* C10 as claimed, for a response of two well-formed blocks with bodies of one
\* plain line that name the same path: when the pass has ended and the file
\* exists, it holds the content of the later block.
C10_LastIntentWins ==
    \A id \in ReqIds :
        (/\ PassRan(id)
         /\ Len(reqs[id].pieces) = 2
         /\ Kinds(reqs[id].pieces) = {"block"}
         /\ BlockBodies(reqs[id].pieces) \subseteq PlainBodies
         /\ reqs[id].pieces[1].path = reqs[id].pieces[2].path)
            => \A f \in files : f.content = reqs[id].pieces[2].body

\* C10 as amended: intents are applied one at a time in document order, and
\* at any time a path holds the content of the last intent for that path
\* whose write succeeded: a later intent that fails leaves the earlier content.
C10_LastWrittenWins ==
    \A id \in ReqIds :
        /\ reqs[id].pc \in {"mkdir", "write"}
              => Append(Intents(id), [path |-> reqs[id].cur.path,
                                      content |-> reqs[id].cur.content])
                    = SubSeq(ExtractAll(reqs[id].text, 1), 1, Len(Intents(id)) + 1)
        /\ Len(reqs) = 1
              => files = UNION {LastSaved(id, abs, Len(FileToasts(id))) : abs \in AbsPaths(id)}

\* A pass has ended in which two intents named the same path with different
\* contents, the first was written and the second failed, and the file holds
\* the content of the first.
C10_Witness ==
    \E id \in ReqIds :
        /\ PassRan(id)
        /\ Len(FileToasts(id)) = 2
        /\ FileToasts(id)[1].kind = "saved"
        /\ FileToasts(id)[2].kind = "failed"
        /\ FileToasts(id)[1].path = FileToasts(id)[2].path
        /\ FileToasts(id)[1].content # FileToasts(id)[2].content
        /\ files = {[path |-> joinPath(rootPath, FileToasts(id)[1].path),
                     content |-> FileToasts(id)[1].content]}

(***************************************************************************)
(* C11.  One live panel at a time.                                         *)
(***************************************************************************)
LivePanels == {p \in PanelIds : panels[p].state = "live"}

\* C11: in every state at most one panel is live, and it is the one that
\* currentPanel names; no step creates a panel while one is live.
C11_SingletonPanel ==
    /\ [](/\ Cardinality(LivePanels) <= 1
          /\ LivePanels = (IF currentPanel = 0 THEN {} ELSE {currentPanel}))
    /\ [][currentPanel # 0 =>
             \A p \in PanelIds : panels'[p].state = "live" => panels[p].state = "live"]_vars

\* After an activation, a disposal and another activation the second panel is
\* the only live one.
C11_Witness ==
    /\ panels[1].state = "disposed"
    /\ panels[2].state = "live"
    /\ currentPanel = 2

(***************************************************************************)
(* C12.  A panel disposed while its request is in flight.                  *)
(***************************************************************************)
\* C12: a step of a request whose panel is disposed posts no event and does
\* not end the handler with an exception.
C12_ResultDropped ==
    [][\A id \in ReqIds :
          IsDisposed(id) =>
              /\ reqs'[id].events = reqs[id].events
              /\ ~reqs'[id].crashed]_vars

(***************************************************************************)
(* C13.  The events of two requests of one panel.                          *)
(***************************************************************************)
\* C13: a request of a panel posts no event before every earlier request of
\* that panel has ended, and a bot element holds only the response of the
\* request of the submission it was created for.
C13_NoInterleaving ==
    /\ \A i, j \in ReqIds :
          (i < j /\ reqs[i].panel = reqs[j].panel /\ reqs[j].events # <<>>)
             => Done(i)
    /\ \A p \in PanelIds : \A k \in 1..Len(ui[p].messages) :
          ui[p].messages[k].type = "bot" =>
              \A n \in 1..Len(ui[p].messages[k].reqs) :
                  reqs[ui[p].messages[k].reqs[n]].sub = ui[p].messages[k].owner

(***************************************************************************)
(* C14.  The same response materialized twice.                             *)
(***************************************************************************)
\* The files after the intents are written one after the other.
RECURSIVE ApplyAll(_, _)
ApplyAll(fs, intents) ==
    IF intents = <<>> THEN fs
    ELSE ApplyAll(WriteFile(fs, joinPath(rootPath, Head(intents).path),
                            Head(intents).content),
                  Tail(intents))

\* Every intent of the request's pass was written.
AllSaved(id) ==
    PassRan(id) /\ \A k \in 1..Len(FileToasts(id)) : FileToasts(id)[k].kind = "saved"

\* C14: when the intents of a response were written by one pass, the files are
\* those intents applied in order; when a second pass has written the intents
\* of the same response again, the files are the same.
C14_Idempotent ==
    \A i, j \in ReqIds :
        (i # j /\ AllSaved(i)) =>
            /\ reqs[j].text = <<>>
                  => files = ApplyAll({}, ExtractAll(reqs[i].text, 1))
            /\ (AllSaved(j) /\ reqs[j].text = reqs[i].text)
                  => files = ApplyAll({}, ExtractAll(reqs[i].text, 1))

\* Two passes have written the intents of the same response, which names one
\* path twice with different contents; the file holds the later content.
C14_Witness ==
    /\ Len(reqs) = 2
    /\ AllSaved(1) /\ AllSaved(2)
    /\ reqs[1].text = reqs[2].text
    /\ Len(FileToasts(1)) = 2 /\ Len(FileToasts(2)) = 2
    /\ FileToasts(1)[1].path = FileToasts(1)[2].path
    /\ FileToasts(1)[1].content # FileToasts(1)[2].content
    /\ files = {[path |-> joinPath(rootPath, FileToasts(1)[2].path),
                 content |-> FileToasts(1)[2].content]}

KnownAgents == {"architect", "coder"}

\* C16: whatever its agent, a request that got its credential has selected a
\* system prompt (the architect's for the architect, the coder's for the coder
\* and for every other agent) and has made the remote call.
C16_PromptTotal ==
    \A id \in ReqIds :
        \/ reqs[id].pc = "auth"
        \/ reqs[id].err = "Authentication failed"
        \/ /\ reqs[id].fetches = 1
           /\ reqs[id].prompt \in {ARCHITECT_PROMPT, CODER_PROMPT}
           /\ reqs[id].agent = "architect" => reqs[id].prompt = ARCHITECT_PROMPT
           /\ reqs[id].agent = "coder" => reqs[id].prompt = CODER_PROMPT
           /\ reqs[id].agent \notin KnownAgents => reqs[id].prompt = CODER_PROMPT

\* A request of an agent outside the known set waits for the remote call with
\* the coder's prompt.
C16_Witness ==
    \E id \in ReqIds :
        /\ reqs[id].agent \notin KnownAgents
        /\ reqs[id].pc = "fetch"
        /\ reqs[id].prompt = CODER_PROMPT

(***************************************************************************)
(* C17.  One credential and at most one remote call per request.           *)
(***************************************************************************)
\* C17: every request has called getSession exactly once, and has called
\* fetch not at all while it waits for the credential or when the credential
\* failed, and exactly once otherwise, whatever the call gave.
C17_SingleAttempt ==
    \A id \in ReqIds :
        /\ reqs[id].sessions = 1
        /\ reqs[id].fetches =
              (IF reqs[id].pc = "auth" \/ reqs[id].err = "Authentication failed"
               THEN 0 ELSE 1)

\* One request has ended without a remote call because the credential failed,
\* another after one remote call that gave status 401.
C17_Witness ==
    \E i, j \in ReqIds :
        /\ Done(i) /\ reqs[i].err = "Authentication failed" /\ reqs[i].fetches = 0
        /\ Done(j) /\ reqs[j].status = 401 /\ reqs[j].fetches = 1

(***************************************************************************)
(* C18.  The count of the aggregate notice.                                *)
(***************************************************************************)
\* The addSystemMessage messages of a request in the queue of its webview.
Notices(id) ==
    {k \in 1..Len(toUI[reqs[id].panel]) :
        /\ toUI[reqs[id].panel][k].command = "addSystemMessage"
        /\ toUI[reqs[id].panel][k].req = id}

\* The intents of the request whose createDirectory and writeFile completed.
Succeeded(id) ==
    Cardinality({k \in 1..Len(FileToasts(id)) : FileToasts(id)[k].kind = "saved"})

\* C18 as claimed: after a pass over a response with intents, one notice was
\* posted and its count is the number of intents that succeeded, also when
\* none did.
C18_CountReported ==
    \A id \in ReqIds :
        (PassRan(id) /\ Intents(id) # <<>>) =>
            /\ Cardinality(Notices(id)) = 1
            /\ \A k \in Notices(id) : toUI[reqs[id].panel][k].count = Succeeded(id)

\* C18 as amended: after a pass one notice was posted if at least one intent
\* succeeded, and its count is the number of intents that succeeded; no notice
\* was posted if none succeeded.
C18_CountReportedIfAny ==
    \A id \in ReqIds :
        PassRan(id) =>
            /\ Cardinality(Notices(id)) = (IF Succeeded(id) > 0 THEN 1 ELSE 0)
            /\ \A k \in Notices(id) : toUI[reqs[id].panel][k].count = Succeeded(id)

\* A pass has ended in which one intent failed and one succeeded, and the
\* notice in the queue counts one file.
C18_Witness ==
    \E id \in ReqIds :
        /\ PassRan(id)
        /\ Len(FileToasts(id)) = 2 /\ Succeeded(id) = 1
        /\ \E k \in Notices(id) : toUI[reqs[id].panel][k].count = 1

(***************************************************************************)
(* C19.  What dispose() releases.                                          *)
(***************************************************************************)
RequestsOf(p) == {id \in ReqIds : reqs[id].panel = p}

\* C19: a disposed panel is not the current panel, holds no subscription and
\* no message to handle, and gets no further request; a step that disposes a
\* panel leaves currentPanel undefined, and the panel that createOrShow then
\* makes current is one that did not exist before.
C19_DisposeReleases ==
    /\ [](\A p \in PanelIds :
            panels[p].state = "disposed" =>
                /\ currentPanel # p
                /\ panels[p].disposables = 0
                /\ toHost[p] = <<>>)
    /\ [][\A p \in PanelIds :
             /\ (panels[p].state = "disposed" /\ Len(reqs') > Len(reqs))
                   => reqs'[Len(reqs')].panel # p
             /\ (panels[p].state = "live" /\ panels'[p].state = "disposed")
                   => currentPanel' = 0
             /\ (currentPanel = 0 /\ currentPanel' = p)
                   => (panels[p].state = "none" /\ panels'[p].state = "live"
                       /\ panels'[p].disposables = 2)]_vars

\* The first panel was disposed with a request in flight, and a second panel
\* has been created and has a request of its own.
C19_Witness ==
    /\ panels[1].state = "disposed"
    /\ currentPanel = 2
    /\ RequestsOf(1) # {}
    /\ RequestsOf(2) # {}

(***************************************************************************)
(* C20.  The error reported for a non-ok response.                         *)
(***************************************************************************)
\* C20: a request that ended after a non-ok response reports an API error
\* with the status, with the server's message when the body has one and with
\* the generic description otherwise, also for a body that is no JSON.
C20_ApiErrorNotice ==
    \A id \in ReqIds :
        (Done(id) /\ reqs[id].status # 0) =>
            reqs[id].err = (IF reqs[id].errBody = "message"
                            THEN "API Error: server message"
                            ELSE "API Error: Erro desconhecido")

(***************************************************************************)
(* C21.  The send button.                                                  *)
(***************************************************************************)
\* The webview of p handles, in this step, a message of one of the commands.
Receives(p, commands) ==
    /\ toUI[p] # <<>>
    /\ Head(toUI[p]).command \in commands
    /\ toUI'[p] = Tail(toUI[p])

\* The webview of p submits in this step.
Submits(p) == Len(toHost'[p]) > Len(toHost[p])

\* C21 as claimed: a submission disables the send button, and the button is
\* enabled again only by the receipt of an endStream event.
C21_OnlyFinishedEnables ==
    [][\A p \in PanelIds :
          /\ Submits(p) => ui'[p].sendDisabled
          /\ (ui[p].sendDisabled /\ ~ui'[p].sendDisabled)
                => Receives(p, {"endStream"})]_vars

\* C21 as amended: a submission disables the send button, and the button is
\* enabled again only by the receipt of a showError or an endStream event.
C21_ErrorOrFinishedEnables ==
    [][\A p \in PanelIds :
          /\ Submits(p) => ui'[p].sendDisabled
          /\ (ui[p].sendDisabled /\ ~ui'[p].sendDisabled)
                => Receives(p, {"showError", "endStream"})]_vars

\* The webview has handled the showError of its request and the button is
\* enabled, while the endStream of that request is still to be handled.
C21_Witness ==
    \E p \in PanelIds :
        /\ panels[p].state = "live"
        /\ ~ui[p].sendDisabled
        /\ Cardinality(RequestsOf(p)) = 1
        /\ toUI[p] # <<>>
        /\ Head(toUI[p]).command = "endStream"
        /\ \E k \in 1..Len(ui[p].messages) : ui[p].messages[k].type = "system"

(***************************************************************************)
(* C22.  The prompt sent and the decision to materialize.                  *)
(***************************************************************************)
\* processAndWriteFiles was called for the request, as a response with FILE
\* blocks shows it: the warning of a missing workspace, or a file operation.
Materialized(id) ==
    \/ \E k \in 1..Len(reqs[id].toasts) :
          reqs[id].toasts[k].kind \in {"warning", "saved", "failed"}
    \/ reqs[id].pc \in {"mkdir", "write"}

\* C22: a request that has posted a response with FILE blocks and has ended
\* was materialized exactly when it was sent with the coder's prompt.
C22_PromptAgreesWithWrites ==
    \A id \in ReqIds :
        (/\ Done(id)
         /\ reqs[id].events # <<>>
         /\ ExtractAll(reqs[id].text, 1) # <<>>)
            => (Materialized(id) <=> reqs[id].prompt = CODER_PROMPT)

(***************************************************************************)
(* C23.  File operations of a request whose panel is disposed.             *)
(***************************************************************************)
\* The request begins a createDirectory or a writeFile in this step.
Begins(id) == reqs'[id] # reqs[id] /\ reqs'[id].pc \in {"mkdir", "write"}

\* The request has not yet posted its response.
BeforeResponse(id) == reqs[id].pc \in {"auth", "fetch", "errjson", "json"}

\* C23 as claimed: a request whose panel is disposed begins no createDirectory
\* and no writeFile.
C23_NoWriteAfterDispose ==
    [][\A id \in ReqIds : IsDisposed(id) => ~Begins(id)]_vars

\* C23 as amended: a request whose panel is disposed before its response
\* arrives begins no file operation and changes neither files nor directories;
\* a pass that has begun goes on to the last intent of the response, whether
\* or not the panel is disposed meanwhile.
C23_NoPassAfterDispose ==
    /\ [][\A id \in ReqIds :
             (IsDisposed(id) /\ BeforeResponse(id)) =>
                 /\ ~Begins(id)
                 /\ reqs'[id] # reqs[id] => (files' = files /\ dirs' = dirs)]_vars
    /\ [](\A id \in ReqIds :
            (/\ Done(id)
             /\ reqs[id].agent = "coder"
             /\ reqs[id].events # <<>>
             /\ \A k \in 1..Len(reqs[id].toasts) : reqs[id].toasts[k].kind # "warning")
                => Intents(id) = ExtractAll(reqs[id].text, 1))

\* A pass whose panel was disposed before its end has written both files of
\* the response; its notice and its endStream were not posted.
C23_Witness ==
    \E id \in ReqIds :
        /\ IsDisposed(id) /\ Done(id) /\ reqs[id].crashed
        /\ reqs[id].events = <<"streamResponse">>
        /\ Len(FileToasts(id)) = 2
        /\ \A k \in 1..2 : FileToasts(id)[k].kind = "saved"
        /\ Cardinality(files) = 2

(***************************************************************************)
(* C24.  The panel a request posts to.                                     *)
(***************************************************************************)
\* C24: every message in the queue of a webview, and every response added to
\* a bot element of a webview, is of a request that this panel's listener
\* got; no step of a request changes the queue of another panel.
C24_OwnPanelOnly ==
    /\ [](\A p \in PanelIds :
            /\ \A k \in 1..Len(toUI[p]) : reqs[toUI[p][k].req].panel = p
            /\ \A k \in 1..Len(ui[p].messages) :
                  \A n \in 1..Len(ui[p].messages[k].reqs) :
                      reqs[ui[p].messages[k].reqs[n]].panel = p)
    /\ [][\A id \in ReqIds : \A p \in PanelIds :
             (reqs'[id] # reqs[id] /\ p # reqs[id].panel) => toUI'[p] = toUI[p]]_vars

\* The first panel was disposed with a request in flight and a second panel
\* was created; the old request has ended without an event, and the second
\* panel has got the events of its own request only.
C24_Witness ==
    \E i, j \in ReqIds :
        /\ reqs[i].panel = 1 /\ reqs[j].panel = 2
        /\ panels[1].state = "disposed" /\ panels[2].state = "live"
        /\ Done(i) /\ reqs[i].crashed /\ reqs[i].events = <<>>
        /\ Done(j) /\ ~reqs[j].crashed
        /\ Len(toUI[2]) = Len(reqs[j].events)

====
